---- MODULE Spec2Model ----
(***************************************************************************)
(* The deferred-lighting RenderSystem of src/src/render_system/system.rs   *)
(* as a state machine: the RenderStage automaton, the command recording,   *)
(* the acquired-image bookkeeping, the swapchain rebuild and the           *)
(* submission chain of finish_frame, together with the frame loop of       *)
(* src/examples/render_system.rs that drives it.                           *)
(***************************************************************************)
EXTENDS Integers, Sequences, FiniteSets, TLC

VARIABLES
    render_stage,        \* RenderSystem.render_stage
    commands,            \* RenderSystem.commands : Option<AutoCommandBufferBuilder>
    image_index,         \* RenderSystem.image_index
    acquire_future,      \* RenderSystem.acquire_future : Option<SwapchainAcquireFuture>
    swapchain,           \* RenderSystem.swapchain (generation of the current chain)
    framebuffers,        \* RenderSystem.framebuffers (generation of the chain they wrap)
    acquire_calls,       \* number of acquire_next_image calls made so far
    submissions,         \* history: the then_signal_fence_and_flush calls made so far
    flushed,             \* the future chain flushed by the last finish_frame
    previous_frame_end,  \* the caller's Option<Box<dyn GpuFuture>>
    panicked,            \* a panic! / unwrap() on None has unwound the call
    last_call,           \* the public call (or window event) last, and the stage it found
    pc,                  \* position of the frame loop of the example
    plan,                \* the frame the loop is driving
    todo,                \* calls the loop still has to make in this frame
    surface,             \* inner size of the window behind RenderSystem.surface
    swapchain_create_info, \* image extent and image count of RenderSystem.swapchain
    targets,             \* RenderSystem.framebuffers / color_buffer / normal_buffer: sizes
    vp,                  \* RenderSystem.vp : VP { view, projection }
    vp_buffer,           \* RenderSystem.vp_buffer : contents of the uniform buffer
    vp_set,              \* RenderSystem.vp_set : the buffer the descriptor set binds
    data,                \* Model.data : Vec<NormalVertex>
    translation,         \* Model.translation : Mat4
    rotation,            \* Model.rotation : Mat4
    uniform_scale,       \* Model.uniform_scale
    cache,               \* Model.cache : Cell<Option<(ModelMatrices, NormalMatrices)>>
    model_call           \* the call made last on the Model, and what it returned

sysVars == <<render_stage, commands, image_index, acquire_future, swapchain, framebuffers>>
envVars == <<acquire_calls, submissions, flushed, previous_frame_end, panicked>>
driverVars == <<pc, plan, todo>>
chainVars == <<swapchain_create_info, targets, vp, vp_buffer, vp_set>>
modelVars == <<data, translation, rotation, uniform_scale, cache, model_call>>
vars == <<sysVars, envVars, last_call, driverVars, surface, chainVars, modelVars>>

---------------------------------------------------------------------------
(* Bounds of the model. *)

MaxFrames == 3        \* acquire_next_image calls in a run of Spec
MaxDrivenFrames == 2  \* acquire_next_image calls in a run of SpecDriver
MaxRebuilds == 1      \* swapchain rebuilds in a run
MaxOps == 5           \* commands in one recording of Spec, begin_render_pass included
MaxModels == 2        \* render_model calls of one driven frame
MaxLights == 2        \* render_directional / render_light_object calls of one driven frame
ImageCount == 1       \* images of a swapchain
MaxExtent == 2        \* width + height - 1 of the window, at most
MaxView == 1          \* distinct view matrices given to set_view
MaxWindowFrames == 1  \* acquire_next_image calls in a run of SpecWindow
MaxWindowOps == 3     \* commands in one recording of SpecWindow
MaxLitFrames == 1     \* acquire_next_image calls in a run of SpecLights
MaxLitOps == 6        \* commands in one recording of SpecLights
MaxScale == 2         \* scale factor a Model is built with
MaxShift == 1         \* unit translations applied to a Model
MaxQuarters == 1      \* quarter turns of one rotate call
MaxLightKinds == 2    \* distinct directional lights a caller has

---------------------------------------------------------------------------
(* Option<T>: None is the empty sequence, Some(x) the one-element one. *)

None == <<>>
Some(x) == <<x>>
IsSome(o) == o # None
Unwrap(o) == o[1]

RenderStage == {"Stopped", "Deferred", "Ambient", "Directional", "LightObject", "NeedsRedraw"}

AcquireOutcome == {"ok", "suboptimal", "out_of_date", "error"}
FlushOutcome == {"ok", "out_of_date", "error"}

(* GPU signals: vulkano::sync::now, the fence of a flushed submission, and  *)
(* the acquire future of an acquire_next_image call.                        *)
NowFuture == [kind |-> "now", id |-> 0]
FenceFuture(n) == [kind |-> "fence", id |-> n]
AcquireFuture(n) == [kind |-> "acquire", id |-> n]

Call(op, input) == [op |-> op, stage |-> render_stage, input |-> input]

---------------------------------------------------------------------------
(* RenderSystem::recreate_swapchain: a new chain replaces the current one  *)
(* and the framebuffers are rebuilt from the new chain's images; before    *)
(* that the projection is recomputed from the window, after it the uniform *)
(* buffer and the descriptor set are rebuilt from the view and projection. *)

(* Window sizes, width and height at least 1. *)
Extents == {e \in (1 .. MaxExtent) \X (1 .. MaxExtent) : e[1] + e[2] <= MaxExtent + 1}

(* View matrices by name: Mat4::IDENTITY and the ones a caller passes to   *)
(* set_view.                                                               *)
ViewMatrix(i) == IF i = 0 THEN [mat |-> "IDENTITY", id |-> i] ELSE [mat |-> "view", id |-> i]
Views == {ViewMatrix(i) : i \in 0 .. MaxView}

(* Directional lights: DirectionalLight { position: [f32; 3], color:       *)
(* [f32; 3] }, with whole-number components.                               *)
Light(i) == [position |-> <<i, 0 - i, i + 1>>,
             color |-> [j \in 1 .. 3 |-> IF j = (i % 3) + 1 THEN 1 ELSE 0]]
Lights == {Light(i) : i \in 1 .. MaxLightKinds}

RECURSIVE GCD(_, _)
GCD(a, b) == IF b = 0 THEN a ELSE GCD(b, a % b)

(* extent[0] as f32 / extent[1] as f32, kept as the fraction in lowest terms. *)
AspectRatio(extent) ==
    LET g == GCD(extent[1], extent[2]) IN <<extent[1] \div g, extent[2] \div g>>

(* VP::from_surface: identity view, perspective of the window's aspect ratio. *)
VP_from_surface(window) ==
    [view |-> ViewMatrix(0),
     projection |-> [perspective |-> "rh_gl", aspect_ratio |-> AspectRatio(window)]]

(* create_swapchain_and_images: the chain takes the window's size; a new   *)
(* one asks for the surface's minimum image count, a recreated one keeps   *)
(* the create info of the old one.                                         *)
create_swapchain_and_images(window, old_swapchain) ==
    [image_extent |-> window,
     image_count |-> IF IsSome(old_swapchain) THEN Unwrap(old_swapchain).image_count
                     ELSE ImageCount]

(* create_framebuffer: the attachments take the size of the first image,   *)
(* and there is one framebuffer per image.                                 *)
create_framebuffer(images) ==
    LET dimensions == images.image_extent IN
    [framebuffers |-> [len |-> images.image_count, dimensions |-> dimensions],
     color_buffer |-> dimensions,
     normal_buffer |-> dimensions]

(* create_uniform_buffer: a new buffer holding VpData { view, projection }. *)
create_uniform_buffer(x) == [view |-> x.view, projection |-> x.projection]

(* PersistentDescriptorSet::new with the buffer at binding 0. *)
descriptor_set(buffer) == [binding0 |-> buffer]

(* Variant: the rebuild leaves the projection as it was. *)
recreate_swapchain_keep_projection ==
    /\ swapchain' = swapchain + 1
    /\ framebuffers' = swapchain + 1
    /\ vp' = vp
    /\ swapchain_create_info' =
          create_swapchain_and_images(surface, Some(swapchain_create_info))
    /\ targets' = create_framebuffer(swapchain_create_info')
    /\ vp_buffer' = create_uniform_buffer(vp')
    /\ vp_set' = descriptor_set(vp_buffer')

(* Variant: the rebuild starts over from VP::from_surface, as new() does. *)
recreate_swapchain_reset_view ==
    /\ vp' = VP_from_surface(surface)
    /\ swapchain_create_info' =
          create_swapchain_and_images(surface, Some(swapchain_create_info))
    /\ targets' = create_framebuffer(swapchain_create_info')
    /\ swapchain' = swapchain + 1
    /\ framebuffers' = swapchain + 1
    /\ vp_buffer' = create_uniform_buffer(vp')
    /\ vp_set' = descriptor_set(vp_buffer')

recreate_swapchain ==
    /\ vp' = [vp EXCEPT !.projection = VP_from_surface(surface).projection]
    /\ swapchain_create_info' =
          create_swapchain_and_images(surface, Some(swapchain_create_info))
    /\ targets' = create_framebuffer(swapchain_create_info')
    /\ swapchain' = swapchain + 1
    /\ framebuffers' = swapchain + 1
    /\ vp_buffer' = create_uniform_buffer(vp')
    /\ vp_set' = descriptor_set(vp_buffer')

(* Variant: set_view keeps the uniform buffer it had. *)
set_view_stale_buffer(view) ==
    /\ ~panicked
    /\ last_call' = Call("set_view", view)
    /\ vp' = [vp EXCEPT !.view = view]
    /\ vp_buffer' = vp_buffer
    /\ vp_set' = descriptor_set(vp_buffer')
    /\ UNCHANGED <<sysVars, envVars, surface, swapchain_create_info, targets, modelVars>>

(* RenderSystem::set_view *)
set_view(view) ==
    /\ ~panicked
    /\ last_call' = Call("set_view", view)
    /\ vp' = [vp EXCEPT !.view = view]
    /\ vp_buffer' = create_uniform_buffer(vp')
    /\ vp_set' = descriptor_set(vp_buffer')
    /\ UNCHANGED <<sysVars, envVars, surface, swapchain_create_info, targets, modelVars>>

(* The recording after the commands `ops` have been appended to it. Of the *)
(* view/projection descriptor sets its draws bind, `bound` (an Option), it *)
(* keeps the one bound last.                                               *)
Recorded(recording, ops, bound) ==
    [recording EXCEPT !.ops = recording.ops \o ops,
                      !.vp_set = IF IsSome(bound) THEN bound ELSE recording.vp_set]

---------------------------------------------------------------------------
(* RenderSystem::start_frame *)

(* Variant: a start_frame in mid-frame starts over instead of aborting. *)
start_frame_match_restart(stage) ==
    CASE stage = "NeedsRedraw" -> [arm |-> "redraw", stage |-> "Stopped"]
      [] OTHER -> [arm |-> "proceed", stage |-> "Deferred"]

(* Variant: a start_frame in mid-frame drops the recording and keeps the stage. *)
start_frame_match_keep_stage(stage) ==
    CASE stage = "Stopped" -> [arm |-> "proceed", stage |-> "Deferred"]
      [] stage = "NeedsRedraw" -> [arm |-> "redraw", stage |-> "Stopped"]
      [] OTHER -> [arm |-> "abort", stage |-> stage]

(* The match on the stage: the arm taken and the stage it assigns. *)
start_frame_match(stage) ==
    CASE stage = "Stopped" -> [arm |-> "proceed", stage |-> "Deferred"]
      [] stage = "NeedsRedraw" -> [arm |-> "redraw", stage |-> "Stopped"]
      [] OTHER -> [arm |-> "abort", stage |-> "Stopped"]

(* The attachments of the render pass, in the order it declares them. *)
attachments == <<"final_color", "color", "normals", "depth">>

(* Variant: the colour attachments are cleared to transparent black. *)
clear_values_transparent ==
    <<Some([float |-> <<0, 0, 0, 0>>]),
      Some([float |-> <<0, 0, 0, 0>>]),
      Some([float |-> <<0, 0, 0, 0>>]),
      Some([depth |-> 1])>>

(* The clear values start_frame begins the render pass with, one per       *)
(* attachment: [r, g, b, a] for a colour attachment, the depth for the     *)
(* depth attachment (0.0 and 1.0 written 0 and 1).                         *)
clear_values ==
    <<Some([float |-> <<0, 0, 0, 1>>]),
      Some([float |-> <<0, 0, 0, 1>>]),
      Some([float |-> <<0, 0, 0, 1>>]),
      Some([depth |-> 1])>>

(* Variant: an acquire signal that is still held is kept, the new one      *)
(* dropped.                                                                *)
start_frame_acquire_keep_signal(acq, img) ==
    /\ acquire_calls' = acquire_calls + 1
    /\ CASE acq \in {"out_of_date", "suboptimal"} ->
              /\ recreate_swapchain
              /\ UNCHANGED <<commands, image_index, acquire_future, panicked>>
         [] acq = "error" ->
              /\ panicked' = TRUE
              /\ UNCHANGED <<commands, image_index, acquire_future, swapchain, framebuffers, chainVars>>
         [] acq = "ok" ->
              /\ commands' = Some([frame |-> acquire_calls + 1,
                                   framebuffer |-> [of |-> framebuffers, index |-> img],
                                   clear_values |-> clear_values,
                                   ops |-> <<"begin_render_pass">>,
                                   directional_uniforms |-> <<>>,
                                   vp_set |-> None])
              /\ image_index' = img
              /\ acquire_future' = IF IsSome(acquire_future) THEN acquire_future
                                   ELSE Some(AcquireFuture(acquire_calls + 1))
              /\ UNCHANGED <<swapchain, framebuffers, chainVars, panicked>>

(* acquire_next_image and what follows it, for the outcome `acq` of the    *)
(* acquire and the image `img` it hands out.                               *)
start_frame_acquire(acq, img) ==
    /\ acquire_calls' = acquire_calls + 1
    /\ CASE acq = "out_of_date" ->
              /\ recreate_swapchain
              /\ UNCHANGED <<commands, image_index, acquire_future, panicked>>
         [] acq = "error" ->
              /\ panicked' = TRUE
              /\ UNCHANGED <<commands, image_index, acquire_future, swapchain, framebuffers, chainVars>>
         [] acq = "suboptimal" ->
              /\ recreate_swapchain
              /\ UNCHANGED <<commands, image_index, acquire_future, panicked>>
         [] acq = "ok" ->
              /\ commands' = Some([frame |-> acquire_calls + 1,
                                   framebuffer |-> [of |-> framebuffers, index |-> img],
                                   clear_values |-> clear_values,
                                   ops |-> <<"begin_render_pass">>,
                                   directional_uniforms |-> <<>>,
                                   vp_set |-> None])
              /\ image_index' = img
              /\ acquire_future' = Some(AcquireFuture(acquire_calls + 1))
              /\ UNCHANGED <<swapchain, framebuffers, chainVars, panicked>>

start_frame(acq, img) ==
    LET m == start_frame_match(render_stage) IN
    /\ ~panicked
    /\ UNCHANGED <<surface, modelVars>>
    /\ last_call' = Call("start_frame", acq)
    /\ render_stage' = m.stage
    /\ UNCHANGED <<submissions, flushed, previous_frame_end>>
    /\ CASE m.arm = "proceed" -> start_frame_acquire(acq, img)
         [] m.arm = "redraw" ->
              /\ recreate_swapchain
              /\ commands' = None
              /\ UNCHANGED <<image_index, acquire_future, acquire_calls, panicked>>
         [] OTHER ->
              /\ commands' = None
              /\ UNCHANGED <<image_index, acquire_future, swapchain, framebuffers, chainVars,
                             acquire_calls, panicked>>

---------------------------------------------------------------------------
(* The draw calls. Each one ends in self.commands.as_mut().unwrap(), which *)
(* panics when no recording is held.                                       *)

record_or_panic(ops, bound) ==
    IF IsSome(commands)
    THEN /\ commands' = Some(Recorded(Unwrap(commands), ops, bound))
         /\ UNCHANGED panicked
    ELSE /\ panicked' = TRUE
         /\ UNCHANGED commands

(* Variant: geometry is also accepted after the ambient pass. *)
render_model_match_late(stage) ==
    CASE stage \in {"Deferred", "Ambient"} -> [arm |-> "proceed", stage |-> stage]
      [] stage = "NeedsRedraw" -> [arm |-> "redraw", stage |-> "Stopped"]
      [] OTHER -> [arm |-> "abort", stage |-> "Stopped"]

render_model_match(stage) ==
    CASE stage = "Deferred" -> [arm |-> "proceed", stage |-> "Deferred"]
      [] stage = "NeedsRedraw" -> [arm |-> "redraw", stage |-> "Stopped"]
      [] OTHER -> [arm |-> "abort", stage |-> "Stopped"]

render_model ==
    LET m == render_model_match(render_stage) IN
    /\ ~panicked
    /\ UNCHANGED <<surface, modelVars>>
    /\ last_call' = Call("render_model", "-")
    /\ render_stage' = m.stage
    /\ UNCHANGED <<image_index, acquire_future, acquire_calls, submissions,
                   flushed, previous_frame_end>>
    /\ CASE m.arm = "proceed" ->
              /\ record_or_panic(<<"draw_model">>, Some(vp_set))
              /\ UNCHANGED <<swapchain, framebuffers, chainVars>>
         [] m.arm = "redraw" ->
              /\ recreate_swapchain
              /\ commands' = None
              /\ UNCHANGED panicked
         [] OTHER ->
              /\ commands' = None
              /\ UNCHANGED <<swapchain, framebuffers, chainVars, panicked>>

(* Vec3::xyzz *)
xyzz(v) == <<v[1], v[2], v[3], v[3]>>

(* Variant: one buffer is written in place, so every draw that refers to   *)
(* it reads the data written last.                                         *)
from_data_in_place(subbuffers, value) == [i \in 1 .. Len(subbuffers) + 1 |-> value]

(* CpuBufferPool::from_data: a subbuffer of its own for `value`, next to   *)
(* the ones that are still referred to.                                    *)
from_data(subbuffers, value) == Append(subbuffers, value)

(* generate_directional_buffer: the uniform for `light`, uploaded to a new *)
(* subbuffer of the pool; `subbuffers` are the ones the recording's        *)
(* earlier draws refer to.                                                 *)
generate_directional_buffer(subbuffers, light) ==
    LET uniform_data == [position |-> xyzz(light.position), color |-> light.color] IN
    from_data(subbuffers, uniform_data)

(* The directional draw: the recording with the draw appended, bound to    *)
(* the uniform of `light`; a panic when no recording is held.              *)
record_directional(light) ==
    IF IsSome(commands)
    THEN /\ commands' = Some([Recorded(Unwrap(commands), <<"draw_directional">>, None)
                                EXCEPT !.directional_uniforms =
                                    generate_directional_buffer(@, light)])
         /\ UNCHANGED panicked
    ELSE /\ panicked' = TRUE
         /\ UNCHANGED commands

(* Variant: the Directional arm is missing, a second light aborts. *)
render_directional_match_once(stage) ==
    CASE stage = "Ambient" -> [arm |-> "proceed", stage |-> "Directional"]
      [] stage = "NeedsRedraw" -> [arm |-> "redraw", stage |-> "Stopped"]
      [] OTHER -> [arm |-> "abort", stage |-> "Stopped"]

(* Variant: a light is also accepted straight after the geometry pass. *)
render_directional_match_from_deferred(stage) ==
    CASE stage \in {"Deferred", "Ambient", "Directional"} ->
              [arm |-> "proceed", stage |-> "Directional"]
      [] stage = "NeedsRedraw" -> [arm |-> "redraw", stage |-> "Stopped"]
      [] OTHER -> [arm |-> "abort", stage |-> "Stopped"]

render_directional_match(stage) ==
    CASE stage = "Ambient" -> [arm |-> "proceed", stage |-> "Directional"]
      [] stage = "Directional" -> [arm |-> "proceed", stage |-> "Directional"]
      [] stage = "NeedsRedraw" -> [arm |-> "redraw", stage |-> "Stopped"]
      [] OTHER -> [arm |-> "abort", stage |-> "Stopped"]

render_directional(directional_light) ==
    LET m == render_directional_match(render_stage) IN
    /\ ~panicked
    /\ UNCHANGED <<surface, modelVars>>
    /\ last_call' = Call("render_directional", directional_light)
    /\ render_stage' = m.stage
    /\ UNCHANGED <<image_index, acquire_future, acquire_calls, submissions,
                   flushed, previous_frame_end>>
    /\ CASE m.arm = "proceed" ->
              /\ record_directional(directional_light)
              /\ UNCHANGED <<swapchain, framebuffers, chainVars>>
         [] m.arm = "redraw" ->
              /\ recreate_swapchain
              /\ commands' = None
              /\ UNCHANGED panicked
         [] OTHER ->
              /\ commands' = None
              /\ UNCHANGED <<swapchain, framebuffers, chainVars, panicked>>

(* Variant: no early return in Ambient, the ambient pass is recorded again. *)
render_ambient_match_again(stage) ==
    CASE stage \in {"Deferred", "Ambient"} -> [arm |-> "proceed", stage |-> "Ambient"]
      [] stage = "NeedsRedraw" -> [arm |-> "redraw", stage |-> "Stopped"]
      [] OTHER -> [arm |-> "abort", stage |-> "Stopped"]

render_ambient_match(stage) ==
    CASE stage = "Deferred" -> [arm |-> "proceed", stage |-> "Ambient"]
      [] stage = "Ambient" -> [arm |-> "return", stage |-> "Ambient"]
      [] stage = "NeedsRedraw" -> [arm |-> "redraw", stage |-> "Stopped"]
      [] OTHER -> [arm |-> "abort", stage |-> "Stopped"]

render_ambient ==
    LET m == render_ambient_match(render_stage) IN
    /\ ~panicked
    /\ UNCHANGED <<surface, modelVars>>
    /\ last_call' = Call("render_ambient", "-")
    /\ render_stage' = m.stage
    /\ UNCHANGED <<image_index, acquire_future, acquire_calls, submissions,
                   flushed, previous_frame_end>>
    /\ CASE m.arm = "proceed" ->
              /\ record_or_panic(<<"next_subpass", "draw_ambient">>, None)
              /\ UNCHANGED <<swapchain, framebuffers, chainVars>>
         [] m.arm = "return" ->
              UNCHANGED <<commands, swapchain, framebuffers, chainVars, panicked>>
         [] m.arm = "redraw" ->
              /\ recreate_swapchain
              /\ commands' = None
              /\ UNCHANGED panicked
         [] OTHER ->
              /\ commands' = None
              /\ UNCHANGED <<swapchain, framebuffers, chainVars, panicked>>

(* Variant: the LightObject arm is missing, a second marker aborts. *)
render_light_object_match_once(stage) ==
    CASE stage = "Directional" -> [arm |-> "proceed", stage |-> "LightObject"]
      [] stage = "NeedsRedraw" -> [arm |-> "redraw", stage |-> "Stopped"]
      [] OTHER -> [arm |-> "abort", stage |-> "Stopped"]

render_light_object_match(stage) ==
    CASE stage = "Directional" -> [arm |-> "proceed", stage |-> "LightObject"]
      [] stage = "LightObject" -> [arm |-> "proceed", stage |-> "LightObject"]
      [] stage = "NeedsRedraw" -> [arm |-> "redraw", stage |-> "Stopped"]
      [] OTHER -> [arm |-> "abort", stage |-> "Stopped"]

render_light_object ==
    LET m == render_light_object_match(render_stage) IN
    /\ ~panicked
    /\ UNCHANGED <<surface, modelVars>>
    /\ last_call' = Call("render_light_object", "-")
    /\ render_stage' = m.stage
    /\ UNCHANGED <<image_index, acquire_future, acquire_calls, submissions,
                   flushed, previous_frame_end>>
    /\ CASE m.arm = "proceed" ->
              /\ record_or_panic(<<"draw_light_object">>, Some(vp_set))
              /\ UNCHANGED <<swapchain, framebuffers, chainVars>>
         [] m.arm = "redraw" ->
              /\ recreate_swapchain
              /\ commands' = None
              /\ UNCHANGED panicked
         [] OTHER ->
              /\ commands' = None
              /\ UNCHANGED <<swapchain, framebuffers, chainVars, panicked>>

---------------------------------------------------------------------------
(* RenderSystem::finish_frame *)

(* Variant: a frame with the ambient pass only is submitted as well. *)
finish_frame_match_ambient(stage) ==
    CASE stage \in {"Ambient", "Directional", "LightObject"} ->
              [arm |-> "proceed", stage |-> "Stopped"]
      [] stage = "NeedsRedraw" -> [arm |-> "redraw", stage |-> "Stopped"]
      [] OTHER -> [arm |-> "abort", stage |-> "Stopped"]

(* Variant: a finish_frame out of order asks for a redraw. *)
finish_frame_match_flag_redraw(stage) ==
    CASE stage \in {"Directional", "LightObject"} -> [arm |-> "proceed", stage |-> "Stopped"]
      [] stage = "NeedsRedraw" -> [arm |-> "redraw", stage |-> "Stopped"]
      [] OTHER -> [arm |-> "abort", stage |-> "NeedsRedraw"]

finish_frame_match(stage) ==
    CASE stage = "Directional" -> [arm |-> "proceed", stage |-> "Stopped"]
      [] stage = "LightObject" -> [arm |-> "proceed", stage |-> "Stopped"]
      [] stage = "NeedsRedraw" -> [arm |-> "redraw", stage |-> "Stopped"]
      [] OTHER -> [arm |-> "abort", stage |-> "Stopped"]

(* The future chain local_future.join(af).then_execute(..)                 *)
(* .then_swapchain_present(..).then_signal_fence_and_flush(), flushed with *)
(* result `flush`: what it waits on, what it executes and presents, and    *)
(* the order of its stages.                                                *)
submit_chain_no_join(local_future, af, recording, flush) ==
    [waits |-> {local_future},
     execute |-> [frame |-> recording.frame,
                  framebuffer |-> recording.framebuffer,
                  ops |-> recording.ops \o <<"end_render_pass">>,
                  directional_uniforms |-> recording.directional_uniforms],
     present |-> [swapchain |-> swapchain, image_index |-> image_index],
     order |-> <<"then_execute", "then_swapchain_present",
                 "then_signal_fence_and_flush">>,
     result |-> flush]

submit_chain(local_future, af, recording, flush) ==
    [waits |-> {local_future, af},
     execute |-> [frame |-> recording.frame,
                  framebuffer |-> recording.framebuffer,
                  ops |-> recording.ops \o <<"end_render_pass">>,
                  directional_uniforms |-> recording.directional_uniforms],
     present |-> [swapchain |-> swapchain, image_index |-> image_index],
     order |-> <<"join", "then_execute", "then_swapchain_present",
                 "then_signal_fence_and_flush">>,
     result |-> flush]

(* What the history keeps of a flushed chain. *)
Brief(chain) == [waits |-> chain.waits, execute |-> chain.execute.frame,
                 result |-> chain.result]

(* Variant: after a failed flush the caller is handed the fence all the same. *)
frame_end_after_always_fence(flush, fence) == fence

(* The match on the flushed future: the caller's previous_frame_end after it. *)
frame_end_after(flush, fence) ==
    CASE flush = "ok" -> fence
      [] flush = "out_of_date" -> NowFuture
      [] OTHER -> NowFuture

(* Variant: every failed flush rebuilds the swapchain. *)
flush_rebuilds_on_failure(flush) == flush # "ok"

(* The match on the flushed future: whether the swapchain is rebuilt. *)
flush_rebuilds(flush) == flush = "out_of_date"

finish_frame_submit(flush) ==
    IF ~IsSome(commands)
    THEN \* self.commands.take().unwrap()
         /\ panicked' = TRUE
         /\ UNCHANGED <<render_stage, commands, acquire_future, swapchain, framebuffers, chainVars,
                        submissions, flushed, previous_frame_end>>
    ELSE IF ~IsSome(acquire_future)
    THEN \* self.acquire_future.take().unwrap()
         /\ panicked' = TRUE
         /\ commands' = None
         /\ UNCHANGED <<render_stage, acquire_future, swapchain, framebuffers, chainVars,
                        submissions, flushed, previous_frame_end>>
    ELSE /\ flushed' = Some(submit_chain(previous_frame_end, Unwrap(acquire_future),
                                         Unwrap(commands), flush))
         /\ submissions' = Append(submissions, Brief(Unwrap(flushed')))
         /\ acquire_future' = None
         /\ previous_frame_end' = frame_end_after(flush, FenceFuture(Len(submissions) + 1))
         /\ IF flush_rebuilds(flush)
            THEN recreate_swapchain
            ELSE UNCHANGED <<swapchain, framebuffers, chainVars>>
         /\ commands' = None
         /\ render_stage' = "Stopped"
         /\ UNCHANGED panicked

finish_frame(flush) ==
    LET m == finish_frame_match(render_stage) IN
    /\ ~panicked
    /\ UNCHANGED <<surface, modelVars>>
    /\ last_call' = Call("finish_frame", flush)
    /\ UNCHANGED <<image_index, acquire_calls>>
    /\ CASE m.arm = "proceed" -> finish_frame_submit(flush)
         [] m.arm = "redraw" ->
              /\ recreate_swapchain
              /\ commands' = None
              /\ render_stage' = m.stage
              /\ UNCHANGED <<acquire_future, submissions, flushed,
                             previous_frame_end, panicked>>
         [] OTHER ->
              /\ commands' = None
              /\ render_stage' = m.stage
              /\ UNCHANGED <<acquire_future, swapchain, framebuffers, chainVars, submissions,
                             flushed, previous_frame_end, panicked>>

---------------------------------------------------------------------------
(* glam::Mat4 with exact arithmetic: a 4 x 4 matrix of integers n over a   *)
(* common positive denominator d, in lowest terms.                         *)

Idx == 1 .. 4

(* The largest g dividing d and every entry of n. *)
CommonDivisor(n, d) ==
    CHOOSE g \in 1 .. d :
        /\ d % g = 0 /\ \A i, j \in Idx : n[i][j] % g = 0
        /\ \A h \in 1 .. d :
              (d % h = 0 /\ \A i, j \in Idx : n[i][j] % h = 0) => h <= g

Reduce(n, d) ==
    LET g == CommonDivisor(n, d) IN
    [n |-> [i \in Idx |-> [j \in Idx |-> n[i][j] \div g]], d |-> d \div g]

IDENTITY == [n |-> [i \in Idx |-> [j \in Idx |-> IF i = j THEN 1 ELSE 0]], d |-> 1]

(* Mat4 * Mat4 *)
Mul(A, B) ==
    Reduce([i \in Idx |-> [j \in Idx |->
                A.n[i][1] * B.n[1][j] + A.n[i][2] * B.n[2][j]
                    + A.n[i][3] * B.n[3][j] + A.n[i][4] * B.n[4][j]]],
           A.d * B.d)

(* Mat4::transpose *)
Transpose(A) == [n |-> [i \in Idx |-> [j \in Idx |-> A.n[j][i]]], d |-> A.d]

Det3(a) ==
    a[1][1] * (a[2][2] * a[3][3] - a[2][3] * a[3][2])
        - a[1][2] * (a[2][1] * a[3][3] - a[2][3] * a[3][1])
        + a[1][3] * (a[2][1] * a[3][2] - a[2][2] * a[3][1])

Minor(n, i, j) ==
    [r \in 1 .. 3 |-> [c \in 1 .. 3 |->
        n[IF r < i THEN r ELSE r + 1][IF c < j THEN c ELSE c + 1]]]

Cofactor(n, i, j) == (IF (i + j) % 2 = 0 THEN 1 ELSE -1) * Det3(Minor(n, i, j))

Det4(n) ==
    n[1][1] * Cofactor(n, 1, 1) + n[1][2] * Cofactor(n, 1, 2)
        + n[1][3] * Cofactor(n, 1, 3) + n[1][4] * Cofactor(n, 1, 4)

(* What Mat4::inverse returns for a singular matrix: no finite matrix. *)
NonFinite == [n |-> [i \in Idx |-> [j \in Idx |-> 0]], d |-> 0]

(* Mat4::inverse: the adjugate over the determinant. *)
Inverse(A) ==
    LET det == Det4(A.n)
        sign == IF det < 0 THEN -1 ELSE 1
    IN  IF A.d = 0 \/ det = 0 THEN NonFinite
        ELSE Reduce([i \in Idx |-> [j \in Idx |-> sign * A.d * Cofactor(A.n, j, i)]],
                    sign * det)

(* Mat4::from_translation *)
from_translation(v) ==
    [n |-> [i \in Idx |-> [j \in Idx |->
                IF i = j THEN 1 ELSE IF j = 4 THEN v[i] ELSE 0]],
     d |-> 1]

(* Mat4::from_scale of the vector [s; 3] *)
from_scale(sc) ==
    [n |-> [i \in Idx |-> [j \in Idx |-> IF i # j THEN 0 ELSE IF i = 4 THEN 1 ELSE sc]],
     d |-> 1]

(* Cosine and sine of q quarter turns. *)
Cos(q) == CASE q % 4 = 0 -> 1 [] q % 4 = 2 -> -1 [] OTHER -> 0
Sin(q) == CASE q % 4 = 1 -> 1 [] q % 4 = 3 -> -1 [] OTHER -> 0

(* Mat4::from_axis_angle for a coordinate axis and q quarter turns. *)
from_axis_angle(axis, q) ==
    LET co == Cos(q)
        si == Sin(q)
        rot == CASE axis = "x" -> <<<<1, 0, 0, 0>>, <<0, co, -si, 0>>,
                                    <<0, si, co, 0>>, <<0, 0, 0, 1>>>>
                 [] axis = "y" -> <<<<co, 0, si, 0>>, <<0, 1, 0, 0>>,
                                    <<-si, 0, co, 0>>, <<0, 0, 0, 1>>>>
                 [] OTHER -> <<<<co, -si, 0, 0>>, <<si, co, 0, 0>>,
                                <<0, 0, 1, 0>>, <<0, 0, 0, 1>>>>
    IN  [n |-> [i \in Idx |-> [j \in Idx |-> rot[i][j]]], d |-> 1]

Axes == {"x", "y", "z"}
UnitVector(axis) == [i \in Idx |-> IF <<axis, i>> \in {<<"x", 1>>, <<"y", 2>>, <<"z", 3>>}
                                    THEN 1 ELSE 0]

---------------------------------------------------------------------------
(* obj_loader::Model *)

ModelCall(op, result, computed) ==
    [op |-> op, result |-> result, computed |-> computed,
     prev |-> model_call.op, tick |-> 1 - model_call.tick]

(* Loader::as_normal_vertices: three vertices per face, each a position   *)
(* and a normal of the file (by index) and the custom colour; here a file  *)
(* of one face.                                                            *)
as_normal_vertices ==
    [i \in 1 .. 3 |-> [position |-> i, normal |-> i, color |-> "custom_color"]]

(* ModelBuilder::build *)
build(scale_factor) ==
    /\ data = as_normal_vertices
    /\ translation = IDENTITY
    /\ rotation = IDENTITY
    /\ uniform_scale = scale_factor
    /\ cache = None
    /\ model_call = [op |-> "build", result |-> None, computed |-> FALSE,
                     prev |-> "-", tick |-> 0]

(* The "recalculate matrix" block of the two accessors. *)
recalculate ==
    LET model0 == Mul(translation, rotation)
        model == Mul(model0, from_scale(uniform_scale))
        normal == Transpose(Inverse(model))
    IN  [model |-> model, normal |-> normal]

(* Variant: model_matrix recalculates on every call. *)
model_matrix_uncached ==
    /\ cache' = Some(recalculate)
    /\ model_call' = ModelCall("model_matrix", Some(recalculate.model), TRUE)
    /\ UNCHANGED <<data, translation, rotation, uniform_scale>>

(* Model::model_matrix *)
model_matrix ==
    /\ IF IsSome(cache)
       THEN /\ model_call' = ModelCall("model_matrix", Some(Unwrap(cache).model), FALSE)
            /\ UNCHANGED cache
       ELSE /\ cache' = Some(recalculate)
            /\ model_call' = ModelCall("model_matrix", Some(recalculate.model), TRUE)
    /\ UNCHANGED <<data, translation, rotation, uniform_scale>>

(* Model::normal_matrix *)
normal_matrix ==
    /\ IF IsSome(cache)
       THEN /\ model_call' = ModelCall("normal_matrix", Some(Unwrap(cache).normal), FALSE)
            /\ UNCHANGED cache
       ELSE /\ cache' = Some(recalculate)
            /\ model_call' = ModelCall("normal_matrix", Some(recalculate.normal), TRUE)
    /\ UNCHANGED <<data, translation, rotation, uniform_scale>>

(* Variant: the new rotation is applied after the accumulated one. *)
rotate_premultiply(q, axis) ==
    /\ rotation' = Mul(from_axis_angle(axis, q), rotation)
    /\ cache' = None
    /\ model_call' = ModelCall("rotate", None, FALSE)
    /\ UNCHANGED <<data, translation, uniform_scale>>

(* Model::rotate *)
rotate(q, axis) ==
    /\ rotation' = Mul(rotation, from_axis_angle(axis, q))
    /\ cache' = None
    /\ model_call' = ModelCall("rotate", None, FALSE)
    /\ UNCHANGED <<data, translation, uniform_scale>>

(* Variant: translate leaves the cache as it is. *)
translate_keep_cache(v) ==
    /\ translation' = Mul(translation, from_translation(v))
    /\ cache' = cache
    /\ model_call' = ModelCall("translate", None, FALSE)
    /\ UNCHANGED <<data, rotation, uniform_scale>>

(* Model::translate *)
translate(v) ==
    /\ translation' = Mul(translation, from_translation(v))
    /\ cache' = None
    /\ model_call' = ModelCall("translate", None, FALSE)
    /\ UNCHANGED <<data, rotation, uniform_scale>>

(* Variant: zero_rotation leaves the cache as it is. *)
zero_rotation_keep_cache ==
    /\ rotation' = IDENTITY
    /\ cache' = cache
    /\ model_call' = ModelCall("zero_rotation", None, FALSE)
    /\ UNCHANGED <<data, translation, uniform_scale>>

(* Model::zero_rotation *)
zero_rotation ==
    /\ rotation' = IDENTITY
    /\ cache' = None
    /\ model_call' = ModelCall("zero_rotation", None, FALSE)
    /\ UNCHANGED <<data, translation, uniform_scale>>

---------------------------------------------------------------------------
(* The state after RenderSystem::new and the caller's initial              *)
(* previous_frame_end.                                                     *)

NewSystem ==
    /\ render_stage = "Stopped"
    /\ commands = None
    /\ image_index = 0
    /\ acquire_future = None
    /\ swapchain = 0
    /\ framebuffers = 0
    /\ acquire_calls = 0
    /\ submissions = <<>>
    /\ flushed = None
    /\ previous_frame_end = NowFuture
    /\ panicked = FALSE
    /\ last_call = [op |-> "new", stage |-> "Stopped", input |-> "-"]
    /\ surface = <<1, 1>>
    /\ swapchain_create_info = create_swapchain_and_images(surface, None)
    /\ targets = create_framebuffer(swapchain_create_info)
    /\ vp = VP_from_surface(surface)
    /\ vp_buffer = create_uniform_buffer(vp)
    /\ vp_set = descriptor_set(vp_buffer)

Stale == {"out_of_date", "suboptimal"}

---------------------------------------------------------------------------
(* Spec: a caller that makes the public calls in any order. *)

Init ==
    /\ NewSystem
    /\ build(1)
    /\ pc = "any"
    /\ plan = [m |-> 0, n |-> 0, k |-> 0, acq |-> "-", subs |-> 0]
    /\ todo = [m |-> 0, n |-> 0, k |-> 0]

RoomWithin(n, ops) == IsSome(commands) => Len(Unwrap(commands).ops) + n <= ops

Room(n) == RoomWithin(n, MaxOps)

StartFrameWithin(frames) ==
    \E acq \in AcquireOutcome, img \in 0 .. ImageCount - 1 :
        /\ IF render_stage = "Stopped"
           THEN /\ acquire_calls < frames
                /\ acq \in Stale => swapchain < MaxRebuilds
           ELSE \* no acquire is made: one value stands for all
                acq = "ok" /\ img = 0
        /\ start_frame(acq, img)
        /\ UNCHANGED driverVars

StartFrame == StartFrameWithin(MaxFrames)

RenderModel == Room(1) /\ render_model /\ UNCHANGED driverVars

RenderAmbient == Room(2) /\ render_ambient /\ UNCHANGED driverVars

(* The light's data has no part in the control flow: this caller has one. *)
RenderDirectional == Room(1) /\ render_directional(Light(1)) /\ UNCHANGED driverVars

RenderLightObject == Room(1) /\ render_light_object /\ UNCHANGED driverVars

FinishFrame ==
    \E flush \in FlushOutcome :
        /\ IF render_stage \in {"Directional", "LightObject"}
           THEN flush = "out_of_date" => swapchain < MaxRebuilds
           ELSE \* nothing is flushed: one value stands for all
                flush = "ok"
        /\ finish_frame(flush)
        /\ UNCHANGED driverVars

RecreateSwapchain ==
    /\ ~panicked
    /\ swapchain < MaxRebuilds
    /\ recreate_swapchain
    /\ last_call' = Call("recreate_swapchain", "-")
    /\ UNCHANGED <<render_stage, commands, image_index, acquire_future>>
    /\ UNCHANGED <<envVars, driverVars, surface, modelVars>>

Next ==
    \/ StartFrame
    \/ RenderModel
    \/ RenderAmbient
    \/ RenderDirectional
    \/ RenderLightObject
    \/ FinishFrame
    \/ RecreateSwapchain

Spec == Init /\ [][Next]_vars

---------------------------------------------------------------------------
(* SpecWindow: a caller that also moves the camera, in a window that is    *)
(* resized; the public calls in any order, over a short run.               *)

(* The window is resized. The size is read only by a rebuild, so sizes the  *)
(* window passes through before the next rebuild are left out.             *)
WindowResized ==
    /\ ~panicked
    /\ swapchain < MaxRebuilds
    /\ surface = swapchain_create_info.image_extent
    /\ \E e \in Extents \ {surface} : surface' = e
    /\ last_call' = Call("resized", "-")
    /\ UNCHANGED <<sysVars, envVars, driverVars, chainVars, modelVars>>

SetView == \E view \in Views : set_view(view) /\ UNCHANGED driverVars

WindowStartFrame == StartFrameWithin(MaxWindowFrames)

WindowRenderModel == RoomWithin(1, MaxWindowOps) /\ render_model /\ UNCHANGED driverVars

WindowRenderAmbient == RoomWithin(2, MaxWindowOps) /\ render_ambient /\ UNCHANGED driverVars

WindowRenderDirectional ==
    /\ RoomWithin(1, MaxWindowOps)
    /\ render_directional(Light(1))
    /\ UNCHANGED driverVars

WindowRenderLightObject ==
    RoomWithin(1, MaxWindowOps) /\ render_light_object /\ UNCHANGED driverVars

WindowNext ==
    \/ WindowResized
    \/ SetView
    \/ WindowStartFrame
    \/ WindowRenderModel
    \/ WindowRenderAmbient
    \/ WindowRenderDirectional
    \/ WindowRenderLightObject
    \/ FinishFrame
    \/ RecreateSwapchain

SpecWindow == Init /\ [][WindowNext]_vars

---------------------------------------------------------------------------
(* SpecLights: the frame operations in any order, over recordings long     *)
(* enough for a lit frame with several light markers.                      *)

LitStartFrame == StartFrameWithin(MaxLitFrames)

LitRenderModel == RoomWithin(1, MaxLitOps) /\ render_model /\ UNCHANGED driverVars

LitRenderAmbient == RoomWithin(2, MaxLitOps) /\ render_ambient /\ UNCHANGED driverVars

LitRenderDirectional ==
    /\ RoomWithin(1, MaxLitOps)
    /\ \E light \in Lights : render_directional(light)
    /\ UNCHANGED driverVars

LitRenderLightObject == RoomWithin(1, MaxLitOps) /\ render_light_object /\ UNCHANGED driverVars

LightsNext ==
    \/ LitStartFrame
    \/ LitRenderModel
    \/ LitRenderAmbient
    \/ LitRenderDirectional
    \/ LitRenderLightObject
    \/ FinishFrame

SpecLights == Init /\ [][LightsNext]_vars

---------------------------------------------------------------------------
(* SpecDriver: the event loop of examples/render_system.rs. A Resized      *)
(* event rebuilds the swapchain; a RedrawEventsCleared event drives one    *)
(* frame: start_frame, m render_model calls, render_ambient, n             *)
(* render_directional calls, k render_light_object calls, finish_frame.    *)
(* pc is the position in that frame, todo the calls still to be made.      *)

DriverInit ==
    /\ NewSystem
    /\ build(1)
    /\ pc = "idle"
    /\ plan = [m |-> 0, n |-> 0, k |-> 0, acq |-> "-", subs |-> 0]
    /\ todo = [m |-> 0, n |-> 0, k |-> 0]

Resized ==
    /\ pc = "idle"
    /\ ~panicked
    /\ swapchain < MaxRebuilds
    /\ recreate_swapchain
    /\ last_call' = Call("recreate_swapchain", "-")
    /\ UNCHANGED <<render_stage, commands, image_index, acquire_future>>
    /\ UNCHANGED <<envVars, driverVars, surface, modelVars>>

DriveStartFrame ==
    /\ pc = "idle"
    /\ acquire_calls < MaxDrivenFrames
    /\ \E acq \in AcquireOutcome, img \in 0 .. ImageCount - 1,
          m \in 0 .. MaxModels, n \in 1 .. MaxLights, k \in 0 .. MaxLights :
        /\ acq \in Stale => swapchain < MaxRebuilds
        /\ start_frame(acq, img)
        /\ plan' = [m |-> m, n |-> n, k |-> k, acq |-> acq, subs |-> Len(submissions)]
        /\ todo' = [m |-> m, n |-> n, k |-> k]
        /\ pc' = "models"

DriveRenderModel ==
    /\ pc = "models"
    /\ todo.m > 0
    /\ render_model
    /\ todo' = [todo EXCEPT !.m = @ - 1]
    /\ UNCHANGED <<pc, plan>>

DriveRenderAmbient ==
    /\ pc = "models"
    /\ todo.m = 0
    /\ render_ambient
    /\ pc' = "lights"
    /\ UNCHANGED <<plan, todo>>

DriveRenderDirectional ==
    /\ pc = "lights"
    /\ todo.n > 0
    /\ render_directional(Light(1))
    /\ todo' = [todo EXCEPT !.n = @ - 1]
    /\ UNCHANGED <<pc, plan>>

DriveRenderLightObject ==
    /\ pc = "lights"
    /\ todo.n = 0
    /\ todo.k > 0
    /\ render_light_object
    /\ todo' = [todo EXCEPT !.k = @ - 1]
    /\ UNCHANGED <<pc, plan>>

DriveFinishFrame ==
    /\ pc = "lights"
    /\ todo.n = 0
    /\ todo.k = 0
    /\ \E flush \in FlushOutcome :
        /\ flush = "out_of_date" => swapchain < MaxRebuilds
        /\ finish_frame(flush)
    /\ pc' = "idle"
    /\ UNCHANGED <<plan, todo>>

DriverNext ==
    \/ Resized
    \/ DriveStartFrame
    \/ DriveRenderModel
    \/ DriveRenderAmbient
    \/ DriveRenderDirectional
    \/ DriveRenderLightObject
    \/ DriveFinishFrame

SpecDriver == DriverInit /\ [][DriverNext]_vars

---------------------------------------------------------------------------
(* SpecModel: a Model built with some scale factor, under its mutators and *)
(* accessors in any order. Rotations are quarter turns about a coordinate  *)
(* axis, translations unit steps along one.                                *)

(* The distance the Model has been translated. *)
Shift == translation.n[1][4] + translation.n[2][4] + translation.n[3][4]

restVars == <<sysVars, envVars, last_call, driverVars, surface, chainVars>>

ModelInit ==
    /\ NewSystem
    /\ pc = "any"
    /\ plan = [m |-> 0, n |-> 0, k |-> 0, acq |-> "-", subs |-> 0]
    /\ todo = [m |-> 0, n |-> 0, k |-> 0]
    /\ \E scale_factor \in 1 .. MaxScale : build(scale_factor)

Rotate ==
    \E q \in 1 .. MaxQuarters, axis \in Axes : rotate(q, axis) /\ UNCHANGED restVars

Translate ==
    /\ Shift < MaxShift
    /\ \E axis \in Axes : translate(UnitVector(axis)) /\ UNCHANGED restVars

ZeroRotation == zero_rotation /\ UNCHANGED restVars

GetModelMatrix == model_matrix /\ UNCHANGED restVars

GetNormalMatrix == normal_matrix /\ UNCHANGED restVars

ModelNext ==
    \/ Rotate
    \/ Translate
    \/ ZeroRotation
    \/ GetModelMatrix
    \/ GetNormalMatrix

SpecModel == ModelInit /\ [][ModelNext]_vars

---------------------------------------------------------------------------
(* Vocabulary of the properties. *)

FrameOps == {"start_frame", "render_model", "render_ambient", "render_directional",
             "render_light_object", "finish_frame"}

(* The stages an operation is valid from, after the transition table. *)
ValidFrom(op) ==
    CASE op = "start_frame" -> {"Stopped"}
      [] op = "render_model" -> {"Deferred"}
      [] op = "render_ambient" -> {"Deferred", "Ambient"}
      [] op = "render_directional" -> {"Ambient", "Directional"}
      [] op = "render_light_object" -> {"Directional", "LightObject"}
      [] op = "finish_frame" -> {"Directional", "LightObject"}
      [] OTHER -> RenderStage

(* This step is a call of a frame operation in a stage it is not valid from. *)
AbortStep ==
    /\ last_call'.op \in FrameOps
    /\ render_stage \notin (ValidFrom(last_call'.op) \cup {"NeedsRedraw"})

Rep(x, n) == [i \in 1 .. n |-> x]
Count(ops, x) == Cardinality({i \in DOMAIN ops : ops[i] = x})
Position(ops, x) == CHOOSE i \in DOMAIN ops : ops[i] = x

(* The recording of a frame driven in the canonical order so far. *)
CanonicalOps(m, ambient, n, k) ==
    <<"begin_render_pass">> \o Rep("draw_model", m)
        \o (IF ambient THEN <<"next_subpass", "draw_ambient">> ELSE <<>>)
        \o Rep("draw_directional", n) \o Rep("draw_light_object", k)

---------------------------------------------------------------------------
(* C1: a frame driven in the canonical order with a successful acquire     *)
(* passes Deferred, Ambient, Directional (LightObject when k > 0) and ends *)
(* in Stopped; its recording holds exactly m model draws, one subpass      *)
(* advance, one ambient draw, n directional draws and k marker draws, and  *)
(* a successful flush is exactly one submission with one presentation.     *)
C1_CanonicalFrame ==
    plan.acq = "ok" =>
        /\ ~panicked
        /\ pc = "models" =>
              /\ render_stage = "Deferred"
              /\ IsSome(commands)
              /\ Unwrap(commands).ops = CanonicalOps(plan.m - todo.m, FALSE, 0, 0)
              /\ Len(submissions) = plan.subs
        /\ pc = "lights" =>
              /\ render_stage = (IF todo.n = plan.n THEN "Ambient"
                                 ELSE IF todo.k = plan.k THEN "Directional"
                                 ELSE "LightObject")
              /\ IsSome(commands)
              /\ Unwrap(commands).ops =
                    CanonicalOps(plan.m, TRUE, plan.n - todo.n, plan.k - todo.k)
              /\ Len(submissions) = plan.subs
        /\ (pc = "idle" /\ last_call.op = "finish_frame" /\ last_call.input = "ok") =>
              /\ render_stage = "Stopped"
              /\ last_call.stage = (IF plan.k > 0 THEN "LightObject" ELSE "Directional")
              /\ Len(submissions) = plan.subs + 1
              /\ IsSome(flushed)
              /\ Unwrap(flushed).execute.frame = acquire_calls
              /\ Unwrap(flushed).execute.ops =
                    CanonicalOps(plan.m, TRUE, plan.n, plan.k) \o <<"end_render_pass">>
              /\ Count(Unwrap(flushed).order, "then_swapchain_present") = 1

C1_Witness ==
    /\ pc = "idle"
    /\ last_call.op = "finish_frame"
    /\ last_call.input = "ok"
    /\ plan = [m |-> 2, n |-> 2, k |-> 1, acq |-> "ok", subs |-> 0]
    /\ Len(submissions) = 1

(* C2: finish_frame submits and presents only from Directional or          *)
(* LightObject; from Stopped, Deferred or Ambient it submits and presents  *)
(* nothing, drops the recording, leaves previous_frame_end alone and ends  *)
(* in Stopped.                                                             *)
C2_FinishOnlyWhenLit ==
    [][/\ (submissions' # submissions \/ flushed' # flushed) =>
              /\ last_call'.op = "finish_frame"
              /\ render_stage \in {"Directional", "LightObject"}
       /\ (last_call'.op = "finish_frame"
              /\ render_stage \in {"Stopped", "Deferred", "Ambient"}) =>
              /\ submissions' = submissions
              /\ flushed' = flushed
              /\ commands' = None
              /\ previous_frame_end' = previous_frame_end
              /\ render_stage' = "Stopped"
              /\ panicked' = panicked]_vars

C2_Witness ==
    /\ last_call.op = "finish_frame"
    /\ last_call.stage = "Ambient"
    /\ render_stage = "Stopped"
    /\ commands = None
    /\ previous_frame_end = FenceFuture(1)

(* C3: after a start_frame from Stopped whose acquire was out of date or   *)
(* suboptimal, the very next start_frame, given a successful acquire, ends *)
(* in Deferred with a recording begun on the rebuilt framebuffers.         *)
C3_NextStartProceeds ==
    [][(/\ last_call.op = "start_frame"
        /\ last_call.stage = "Stopped"
        /\ last_call.input \in Stale
        /\ last_call'.op = "start_frame"
        /\ last_call'.input = "ok") =>
            /\ render_stage' = "Deferred"
            /\ IsSome(commands')
            /\ Unwrap(commands').framebuffer.of = swapchain']_vars

(* C4: after a stale acquire in start_frame, the remaining calls of the    *)
(* frame in the driver's order all return normally, and submit nothing.    *)
C4_StaleFrameOnlyDropped ==
    plan.acq \in Stale =>
        /\ ~panicked
        /\ pc # "idle" => Len(submissions) = plan.subs

(* C5: start_frame and finish_frame return normally for every outcome of   *)
(* the acquire and of the flush.                                           *)
C5_NoUnwind ==
    last_call.op \in {"start_frame", "finish_frame"} => ~panicked

C7_AbortedFrameNeverSubmitted ==
    [][/\ AbortStep => (commands' = None /\ submissions' = submissions)
       /\ (commands = None /\ commands' # None) =>
              /\ last_call'.op = "start_frame"
              /\ render_stage = "Stopped"
              /\ acquire_calls' = acquire_calls + 1
              /\ Unwrap(commands').frame = acquire_calls'
       /\ submissions' # submissions =>
              /\ IsSome(commands)
              /\ Unwrap(commands).frame = acquire_calls
              /\ submissions' = Append(submissions, Brief(Unwrap(flushed')))
              /\ Unwrap(flushed').execute.frame = Unwrap(commands).frame]_vars

C7_Witness ==
    /\ last_call.op = "finish_frame"
    /\ last_call.stage = "Stopped"
    /\ acquire_future = Some(AcquireFuture(2))
    /\ Len(submissions) = 1
    /\ submissions[1].execute = 1

(* C8: in stage Stopped neither a recording nor an acquire signal is held. *)
C8_StoppedHoldsNothing ==
    render_stage = "Stopped" => (commands = None /\ acquire_future = None)

(* C9: render_ambient in stage Ambient changes nothing, and every flushed  *)
(* recording advances the subpass exactly once, by a render_ambient call   *)
(* made in Deferred.                                                       *)
C9_AmbientOnce ==
    [][/\ (last_call'.op = "render_ambient" /\ render_stage = "Ambient") =>
              UNCHANGED <<sysVars, envVars>>
       /\ (IsSome(commands') /\ Count(Unwrap(commands').ops, "next_subpass") >
              (IF IsSome(commands) THEN Count(Unwrap(commands).ops, "next_subpass") ELSE 0)) =>
              /\ last_call'.op = "render_ambient"
              /\ render_stage = "Deferred"
       /\ IsSome(flushed') =>
              /\ Count(Unwrap(flushed').execute.ops, "next_subpass") = 1
              /\ Count(Unwrap(flushed').execute.ops, "draw_ambient") = 1]_vars

C9_Witness ==
    /\ last_call.op = "render_ambient"
    /\ last_call.stage = "Ambient"
    /\ render_stage = "Ambient"
    /\ IsSome(commands)
    /\ Count(Unwrap(commands).ops, "next_subpass") = 1

(* The fence of the latest submission before the i-th that flushed         *)
(* successfully, or `now` when there is none.                              *)
LastCompleted(i) ==
    LET done == {j \in 1 .. i - 1 : submissions[j].result = "ok"} IN
    IF done = {} THEN NowFuture
    ELSE FenceFuture(CHOOSE j \in done : \A h \in done : h <= j)

(* The signal the caller threads into the i-th submission: the fence of    *)
(* submission i - 1 when that flush succeeded, `now` otherwise.            *)
Threaded(i) ==
    IF i > 1 /\ submissions[i - 1].result = "ok" THEN FenceFuture(i - 1) ELSE NowFuture

(* C10, as stated: every submission waits on the completion signal of the  *)
(* most recent earlier submission and on its own acquire signal.           *)
C10_WaitsOnLastCompleted ==
    \A i \in DOMAIN submissions :
        submissions[i].waits = {LastCompleted(i), AcquireFuture(submissions[i].execute)}

(* C10, amended: every submission waits on the caller-threaded signal (the *)
(* fence of the submission just before it when that one flushed, `now`     *)
(* initially and after a failed flush) and on the acquire signal of the    *)
(* frame it executes; the presentation comes after the execution.          *)
C10_WaitsOnThreaded ==
    /\ \A i \in DOMAIN submissions :
          submissions[i].waits = {Threaded(i), AcquireFuture(submissions[i].execute)}
    /\ IsSome(flushed) =>
          LET order == Unwrap(flushed).order IN
          /\ Count(order, "join") = 1
          /\ Count(order, "then_execute") = 1
          /\ Count(order, "then_swapchain_present") = 1
          /\ Position(order, "join") < Position(order, "then_execute")
          /\ Position(order, "then_execute") < Position(order, "then_swapchain_present")

C10_Witness ==
    /\ Len(submissions) = 2
    /\ submissions[1].execute = 1
    /\ submissions[2].execute = 3
    /\ submissions[2].waits = {FenceFuture(1), AcquireFuture(3)}

(* This step is a finish_frame on its submit path. *)
SubmitStep ==
    /\ last_call'.op = "finish_frame"
    /\ render_stage \in {"Directional", "LightObject"}

(* C11: at most one recording exists at a time. A new recording appears    *)
(* only by a start_frame that finds none held, and a recording goes away   *)
(* only by being submitted by finish_frame or dropped by an abort, so the  *)
(* one of an earlier start_frame is gone before the next is created.       *)
C11_OneRecording ==
    [][/\ (IsSome(commands') /\
              (commands = None \/ Unwrap(commands').frame # Unwrap(commands).frame)) =>
              /\ commands = None
              /\ last_call'.op = "start_frame"
              /\ Unwrap(commands').ops = <<"begin_render_pass">>
              /\ \A i \in DOMAIN submissions :
                    submissions[i].execute < Unwrap(commands').frame
       /\ (IsSome(commands) /\ commands' = None) =>
              \/ /\ SubmitStep
                 /\ Len(submissions') = Len(submissions) + 1
                 /\ Unwrap(flushed').execute.frame = Unwrap(commands).frame
              \/ /\ AbortStep
                 /\ submissions' = submissions]_vars

C11_Witness ==
    /\ last_call.op = "start_frame"
    /\ IsSome(commands)
    /\ Unwrap(commands).frame = 3
    /\ Len(submissions) = 1
    /\ submissions[1].execute = 2

(* C12: finish_frame on its submit path. A successful flush hands the      *)
(* caller the fence of this submission and rebuilds nothing; an out-of-date *)
(* flush rebuilds the swapchain and hands back `now`; any other error      *)
(* hands back `now` and rebuilds nothing. In all three the stage ends      *)
(* Stopped, no recording is held, and the frame executed was not executed  *)
(* by any earlier submission.                                              *)
C12_SubmitOutcomes ==
    [][SubmitStep =>
          LET flush == last_call'.input IN
          /\ ~panicked'
          /\ Len(submissions') = Len(submissions) + 1
          /\ submissions'[Len(submissions')].result = flush
          /\ flush = "ok" =>
                /\ previous_frame_end' = FenceFuture(Len(submissions'))
                /\ swapchain' = swapchain /\ framebuffers' = framebuffers
          /\ flush = "out_of_date" =>
                /\ previous_frame_end' = NowFuture
                /\ swapchain' = swapchain + 1 /\ framebuffers' = swapchain'
          /\ flush = "error" =>
                /\ previous_frame_end' = NowFuture
                /\ swapchain' = swapchain /\ framebuffers' = framebuffers
          /\ render_stage' = "Stopped"
          /\ commands' = None
          /\ \A i \in DOMAIN submissions :
                submissions[i].execute # Unwrap(flushed').execute.frame]_vars

C12_Witness ==
    /\ last_call.op = "finish_frame"
    /\ last_call.stage = "LightObject"
    /\ last_call.input = "out_of_date"
    /\ Len(submissions) = 2
    /\ submissions[1].result = "ok"
    /\ previous_frame_end = NowFuture
    /\ swapchain = 1

(* C13, as stated: a failed flush rebuilds the swapchain and drops the     *)
(* frame, whether the failure is out-of-date or any other error.           *)
C13_AnyFailureRebuilds ==
    [][(SubmitStep /\ last_call'.input \in {"out_of_date", "error"}) =>
          /\ swapchain' = swapchain + 1
          /\ commands' = None]_vars

(* C13, amended: both failures drop the frame and reset the caller's       *)
(* signal to `now`, but only the out-of-date one rebuilds the swapchain.   *)
C13_OnlyOutOfDateRebuilds ==
    [][(SubmitStep /\ last_call'.input \in {"out_of_date", "error"}) =>
          /\ commands' = None
          /\ render_stage' = "Stopped"
          /\ previous_frame_end' = NowFuture
          /\ (swapchain' = swapchain + 1) <=> (last_call'.input = "out_of_date")
          /\ (swapchain' = swapchain) <=> (last_call'.input = "error")]_vars

C13_Witness ==
    /\ last_call.op = "finish_frame"
    /\ last_call.stage = "Directional"
    /\ last_call.input = "error"
    /\ render_stage = "Stopped"
    /\ commands = None
    /\ swapchain = 0
    /\ previous_frame_end = NowFuture
    /\ Len(submissions) = 1

(* C14: in every state, so after every rebuild and every public call, the  *)
(* framebuffers are as many as the images of the current swapchain, they   *)
(* and both intermediate attachments have the swapchain's extent, and the  *)
(* projection has the aspect ratio width / height of that extent.          *)
C14_RebuildInvariant ==
    LET extent == swapchain_create_info.image_extent IN
    /\ framebuffers = swapchain
    /\ targets.framebuffers.len = swapchain_create_info.image_count
    /\ targets.framebuffers.dimensions = extent
    /\ targets.color_buffer = extent
    /\ targets.normal_buffer = extent
    /\ vp.projection.aspect_ratio[1] * extent[2] = vp.projection.aspect_ratio[2] * extent[1]

C14_Witness ==
    /\ last_call.op = "start_frame"
    /\ last_call.input = "out_of_date"
    /\ swapchain = 1
    /\ surface = <<1, 2>>
    /\ swapchain_create_info.image_extent = <<1, 2>>
    /\ targets.framebuffers.dimensions = <<1, 2>>
    /\ vp.projection.aspect_ratio = <<1, 2>>

(* This step is a call that records a draw binding the view/projection set. *)
BindingDrawStep ==
    /\ last_call'.op \in {"render_model", "render_light_object"}
    /\ IsSome(commands)
    /\ IsSome(commands')
    /\ Len(Unwrap(commands').ops) > Len(Unwrap(commands).ops)

C17_SetView ==
    [][/\ last_call'.op = "set_view" =>
              /\ vp'.view = last_call'.input
              /\ vp'.projection = vp.projection
              /\ vp_buffer' = [view |-> last_call'.input, projection |-> vp.projection]
              /\ vp_set'.binding0 = vp_buffer'
              /\ UNCHANGED <<render_stage, commands, image_index, acquire_future>>
       /\ vp'.view # vp.view => last_call'.op = "set_view"
       /\ BindingDrawStep =>
              /\ IsSome(Unwrap(commands').vp_set)
              /\ Unwrap(Unwrap(commands').vp_set).binding0.view = vp.view
              /\ Unwrap(Unwrap(commands').vp_set).binding0.projection = vp.projection]_vars

C17_Witness ==
    /\ last_call = [op |-> "set_view", stage |-> "Deferred", input |-> ViewMatrix(1)]
    /\ render_stage = "Deferred"
    /\ IsSome(commands)
    /\ Unwrap(commands).ops = <<"begin_render_pass", "draw_model">>
    /\ Unwrap(Unwrap(commands).vp_set).binding0.view = ViewMatrix(0)
    /\ vp.view = ViewMatrix(1)
    /\ vp_set.binding0.view = ViewMatrix(1)

Mutators == {"rotate", "translate", "zero_rotation"}
Accessors == {"model_matrix", "normal_matrix"}

(* The matrices of the Model's current transform, after the data model:    *)
(* translation * rotation * scale, and the inverse of its transpose.       *)
ExpectedModel == Mul(translation, Mul(rotation, from_scale(uniform_scale)))
ExpectedNormal == Inverse(Transpose(ExpectedModel))

(* C18: the memoized pair is present exactly when the call made last on    *)
(* the Model is an accessor, that is when no mutation came after the       *)
(* latest computation: it is absent after build and after every rotate,    *)
(* translate and zero_rotation, and present after every accessor.          *)
C18_CacheInvariant ==
    /\ model_call.op = "build" => cache = None
    /\ model_call.op \in Mutators => cache = None
    /\ model_call.op \in Accessors => IsSome(cache)
    /\ IsSome(cache) <=> model_call.op \in Accessors

C18_Witness ==
    /\ model_call.op = "zero_rotation"
    /\ model_call.prev = "normal_matrix"
    /\ cache = None
    /\ translation # IDENTITY

(* C19: a model_matrix call that directly follows a model_matrix call      *)
(* returns what that one returned, recalculates nothing and leaves the     *)
(* memoized pair as it is.                                                 *)
C19_SecondCallHits ==
    [][(model_call.op = "model_matrix" /\ model_call'.op = "model_matrix") =>
          /\ model_call'.result = model_call.result
          /\ ~model_call'.computed
          /\ IsSome(cache)
          /\ cache' = cache]_vars

C19_Witness ==
    /\ model_call.op = "model_matrix"
    /\ model_call.prev = "model_matrix"
    /\ ~model_call.computed
    /\ rotation # IDENTITY
    /\ translation # IDENTITY
    /\ model_call.result = Some(ExpectedModel)

(* C20: whatever normal_matrix returns is the inverse of the transpose of  *)
(* the model matrix of the current translation, rotation and scale, what   *)
(* model_matrix returns is that model matrix, and a memoized pair is the   *)
(* pair of the current transform.                                          *)
C20_NormalOfCurrentModel ==
    /\ model_call.op = "normal_matrix" => model_call.result = Some(ExpectedNormal)
    /\ model_call.op = "model_matrix" => model_call.result = Some(ExpectedModel)
    /\ IsSome(cache) =>
          Unwrap(cache) = [model |-> ExpectedModel, normal |-> ExpectedNormal]

C20_Witness ==
    /\ model_call.op = "normal_matrix"
    /\ model_call.prev = "model_matrix"
    /\ ~model_call.computed
    /\ uniform_scale = 2
    /\ rotation # IDENTITY
    /\ translation # IDENTITY
    /\ model_call.result = Some(ExpectedNormal)
    /\ model_call.result # Some(ExpectedModel)
    /\ Unwrap(model_call.result).d = 2

---------------------------------------------------------------------------
(* C21: every recording finish_frame submits is: render pass begun on the  *)
(* framebuffer of the acquired image, m >= 0 model draws, one subpass      *)
(* advance, one ambient draw, n >= 1 directional draws, k >= 0 marker      *)
(* draws, render pass end; none lacks the subpass advance, the ambient     *)
(* draw or a directional draw.                                             *)
C21_SubmittedShape ==
    IsSome(flushed) =>
        LET chain == Unwrap(flushed)
            ops == chain.execute.ops IN
        /\ chain.execute.framebuffer.index = chain.present.image_index
        /\ \E m \in 0 .. Len(ops), n \in 1 .. Len(ops), k \in 0 .. Len(ops) :
              ops = CanonicalOps(m, TRUE, n, k) \o <<"end_render_pass">>
        /\ Count(ops, "next_subpass") = 1
        /\ Count(ops, "draw_ambient") = 1
        /\ Count(ops, "draw_directional") >= 1

C21_Witness ==
    /\ IsSome(flushed)
    /\ Unwrap(flushed).execute.ops =
          CanonicalOps(1, TRUE, 1, 1) \o <<"end_render_pass">>
    /\ last_call.op = "finish_frame"

(* C22: a rebuild, wherever it is called from, makes a new swapchain with  *)
(* new framebuffers and attachments of the window's size, a projection of  *)
(* the window's aspect ratio and a new uniform and descriptor set holding  *)
(* the old view and the new projection; the public recreate_swapchain call *)
(* leaves the view, the stage, the recording, the image index and the      *)
(* acquire signal as they were, and in Stopped there is no recording       *)
(* before or after it.                                                     *)
C22_RecreateEffect ==
    [][/\ swapchain' # swapchain =>
              /\ swapchain' = swapchain + 1
              /\ framebuffers' = swapchain'
              /\ swapchain_create_info'.image_extent = surface
              /\ targets' = create_framebuffer(swapchain_create_info')
              /\ vp'.projection = VP_from_surface(surface).projection
              /\ vp'.view = vp.view
              /\ vp_buffer' = [view |-> vp.view, projection |-> vp'.projection]
              /\ vp_set' = [binding0 |-> vp_buffer']
       /\ last_call'.op = "recreate_swapchain" =>
              /\ swapchain' # swapchain
              /\ UNCHANGED <<render_stage, commands, image_index, acquire_future>>
              /\ render_stage = "Stopped" =>
                    (render_stage' = "Stopped" /\ commands' = None)]_vars

C22_Witness ==
    /\ last_call.op = "recreate_swapchain"
    /\ last_call.stage = "Deferred"
    /\ render_stage = "Deferred"
    /\ IsSome(commands)
    /\ IsSome(acquire_future)
    /\ vp.view = ViewMatrix(1)
    /\ vp_buffer.view = ViewMatrix(1)
    /\ swapchain = 1
    /\ swapchain_create_info.image_extent = <<1, 2>>
    /\ vp.projection.aspect_ratio = <<1, 2>>

(* The clear value a recording's render pass was begun with for attachment a. *)
ClearValueOf(recording, a) ==
    recording.clear_values[CHOOSE i \in DOMAIN attachments : attachments[i] = a]

(* C23 as stated: the recording start_frame begins has four clear values   *)
(* in the order final-color, color, normals, depth: red, green, blue and   *)
(* alpha all zero for the three colour attachments and 1.0 for depth.      *)
C23_ClearAllZero ==
    IsSome(commands) =>
        /\ Len(Unwrap(commands).clear_values) = 4
        /\ attachments = <<"final_color", "color", "normals", "depth">>
        /\ \A a \in {"final_color", "color", "normals"} :
              ClearValueOf(Unwrap(commands), a) = Some([float |-> <<0, 0, 0, 0>>])
        /\ ClearValueOf(Unwrap(commands), "depth") = Some([depth |-> 1])

(* C23, amended: the recording start_frame begins has four clear values in *)
(* the order final-color, color, normals, depth: red, green and blue zero  *)
(* and alpha 1.0 for the three colour attachments, and 1.0 for depth.      *)
C23_ClearOpaqueBlack ==
    IsSome(commands) =>
        /\ Unwrap(commands).ops[1] = "begin_render_pass"
        /\ Len(Unwrap(commands).clear_values) = 4
        /\ attachments = <<"final_color", "color", "normals", "depth">>
        /\ \A a \in {"final_color", "color", "normals"} :
              ClearValueOf(Unwrap(commands), a) = Some([float |-> <<0, 0, 0, 1>>])
        /\ ClearValueOf(Unwrap(commands), "depth") = Some([depth |-> 1])

C23_Witness ==
    /\ last_call.op = "start_frame"
    /\ last_call.stage = "Stopped"
    /\ last_call.input = "ok"
    /\ render_stage = "Deferred"
    /\ IsSome(commands)
    /\ Unwrap(commands).ops = <<"begin_render_pass">>

(* C24: a render_directional call that records its draw for a light with   *)
(* position (x, y, z) and colour c adds one uniform of its own holding     *)
(* position (x, y, z, z) and colour c, and the uniforms of the frame's     *)
(* earlier lights stay as they were uploaded; a recording has one uniform  *)
(* per directional draw.                                                   *)
C24_DirectionalUniform ==
    [][(/\ last_call'.op = "render_directional"
        /\ IsSome(commands)
        /\ IsSome(commands')) =>
            LET light == last_call'.input
                before == Unwrap(commands).directional_uniforms
                after == Unwrap(commands').directional_uniforms IN
            /\ Len(after) = Len(before) + 1
            /\ \A i \in DOMAIN before : after[i] = before[i]
            /\ after[Len(after)].position =
                    <<light.position[1], light.position[2], light.position[3],
                      light.position[3]>>
            /\ after[Len(after)].color = light.color
            /\ Len(after) = Count(Unwrap(commands').ops, "draw_directional")]_vars

C24_Witness ==
    /\ last_call.op = "render_directional"
    /\ last_call.stage = "Directional"
    /\ last_call.input = Light(2)
    /\ IsSome(commands)
    /\ Unwrap(commands).directional_uniforms =
          <<[position |-> <<1, -1, 2, 2>>, color |-> <<0, 1, 0>>],
            [position |-> <<2, -2, 3, 3>>, color |-> <<0, 0, 1>>]>>

(* The rotations and translations a caller passes. *)
RotationInputs == {from_axis_angle(axis, q) : axis \in Axes, q \in 1 .. MaxQuarters}
TranslationInputs == {from_translation(UnitVector(axis)) : axis \in Axes}

(* C25: zero_rotation sets the rotation to identity, rotate multiplies the *)
(* rotation on the right by the rotation it is given, translate multiplies *)
(* the translation on the right by the translation it is given; each       *)
(* empties the cache and leaves every other field of the Model, the vertex *)
(* data included, as it was.                                               *)
C25_MutatorFrames ==
    [][/\ model_call'.op = "zero_rotation" =>
              /\ rotation' = IDENTITY
              /\ cache' = None
              /\ UNCHANGED <<data, translation, uniform_scale>>
       /\ model_call'.op = "rotate" =>
              /\ \E R \in RotationInputs : rotation' = Mul(rotation, R)
              /\ cache' = None
              /\ UNCHANGED <<data, translation, uniform_scale>>
       /\ model_call'.op = "translate" =>
              /\ \E T \in TranslationInputs : translation' = Mul(translation, T)
              /\ cache' = None
              /\ UNCHANGED <<data, rotation, uniform_scale>>]_vars

C25_Witness ==
    /\ model_call.op = "zero_rotation"
    /\ model_call.prev = "rotate"
    /\ rotation = IDENTITY
    /\ translation = from_translation(UnitVector("x"))
    /\ uniform_scale = 2
    /\ data = as_normal_vertices
    /\ cache = None

(* The stages of a frame in progress, and the calls that record draws. *)
MidFrame == {"Deferred", "Ambient", "Directional", "LightObject"}
RenderOps == {"render_model", "render_ambient", "render_directional",
              "render_light_object"}

(* C26: in Deferred, Ambient, Directional and LightObject a recording is   *)
(* held, and no render operation has unwrapped an absent recording.        *)
C26_RecordingWhenMidFrame ==
    /\ render_stage \in MidFrame => IsSome(commands)
    /\ last_call.op \in RenderOps => ~panicked

(* C27: the image finish_frame presents was acquired from the swapchain it *)
(* is presented to: the swapchain of the presentation is the one the       *)
(* frame's start_frame acquired from and took its framebuffer of.          *)
C27_PresentsToAcquiredFrom ==
    IsSome(flushed) =>
        /\ Unwrap(flushed).present.swapchain = Unwrap(flushed).execute.framebuffer.of
        /\ Unwrap(flushed).present.image_index = Unwrap(flushed).execute.framebuffer.index

(* This step is a start_frame whose acquire succeeded. *)
AcquiredStep ==
    /\ last_call'.op = "start_frame"
    /\ last_call'.input = "ok"
    /\ acquire_calls' = acquire_calls + 1

(* C28: a successful start_frame stores the recording, the acquire signal  *)
(* and the image index of its own acquire, no other step stores any of the *)
(* three, and finish_frame on its submit path finds a recording and an     *)
(* acquire signal of one and the same acquire, the latest that succeeded,  *)
(* and submits that recording after that signal to that image index.       *)
C28_SubmitsOneAcquire ==
    [][/\ AcquiredStep =>
              /\ IsSome(commands')
              /\ Unwrap(commands').frame = acquire_calls'
              /\ acquire_future' = Some(AcquireFuture(acquire_calls'))
              /\ image_index' = Unwrap(commands').framebuffer.index
       /\ ~AcquiredStep =>
              /\ acquire_future' \in {acquire_future, None}
              /\ image_index' = image_index
              /\ IsSome(commands') =>
                    (IsSome(commands) /\ Unwrap(commands').frame = Unwrap(commands).frame)
       /\ SubmitStep =>
              /\ IsSome(commands)
              /\ IsSome(acquire_future)
              /\ ~panicked'
              /\ Unwrap(acquire_future) = AcquireFuture(Unwrap(commands).frame)
              /\ image_index = Unwrap(commands).framebuffer.index
              /\ Unwrap(flushed').execute.frame = Unwrap(commands).frame
              /\ {w \in Unwrap(flushed').waits : w.kind = "acquire"} =
                    {AcquireFuture(Unwrap(commands).frame)}
              /\ Unwrap(flushed').present.image_index = Unwrap(commands).framebuffer.index]_vars

C28_Witness ==
    /\ last_call.op = "finish_frame"
    /\ last_call.stage = "Directional"
    /\ acquire_calls = 2
    /\ Len(submissions) = 1
    /\ IsSome(flushed)
    /\ Unwrap(flushed).execute.frame = 2
    /\ AcquireFuture(2) \in Unwrap(flushed).waits

FreshFrame ==
    /\ render_stage' = "Deferred"
    /\ IsSome(commands')
    /\ Unwrap(commands').frame = acquire_calls'
    /\ Unwrap(commands').ops = <<"begin_render_pass">>
    /\ ~panicked'

(* C30: a start_frame in Stopped whose acquire succeeds ends in Deferred    *)
(* with a fresh recording; a start_frame in any other stage returns        *)
(* normally in Stopped; so of two start_frame calls in a row whose         *)
(* acquire succeeds, the first made in mid-frame, the second ends in       *)
(* Deferred with a fresh recording.                                        *)
C30_TwoStartsRecover ==
    [][(last_call'.op = "start_frame" /\ last_call'.input = "ok") =>
          /\ render_stage = "Stopped" => FreshFrame
          /\ render_stage # "Stopped" =>
                /\ render_stage' = "Stopped"
                /\ commands' = None
                /\ ~panicked'
                /\ acquire_calls' = acquire_calls
          /\ (last_call.op = "start_frame" /\ last_call.stage # "Stopped") =>
                FreshFrame]_vars

C30_Witness ==
    /\ last_call = [op |-> "start_frame", stage |-> "Stopped", input |-> "ok"]
    /\ render_stage = "Deferred"
    /\ IsSome(commands)
    /\ Unwrap(commands).frame = 2
    /\ acquire_calls = 2
    /\ swapchain = 0
    /\ submissions = <<>>
====
